---- MODULE Spec2Model ----
(***************************************************************************)
(* Dependency graph construction (DependencyGraphBuilder) and load order   *)
(* (calculate_load_order) of src/dependency_graph.py.                      *)
(*                                                                         *)
(* Package identifiers are modelled by the numbers 1..NumPackages; the     *)
(* numeric order stands for the lexicographic order of the names           *)
(* ("A" < "B" < "C" ...).                                                  *)
(***************************************************************************)
EXTENDS Integers, Sequences, FiniteSets, TLC

\* ------------------------------------------------------------------ bounds
NumPackages == 3
MaxDeps == 2
MaxDepthChoice == 3
MaxEntries == 4
MaxCalls == 2
MaxEdges == 3

\* default of DependencyGraphBuilder.__init__(analyzer, max_depth=3)
DefaultMaxDepth == 3

Packages == 1..NumPackages

\* the names of the repositories that are built twice: one package more, the fewest
\* on which the order of a list can matter
PairPackages == 1..(NumPackages + 1)

VARIABLES
    max_depth,        \* DependencyGraphBuilder.max_depth
    repository_data,  \* TestRepositoryLoader.repository_data, as far as read
    root_package,     \* DependencyGraph.root_package (0: no graph yet)
    graph,            \* DependencyGraph.graph: package -> list of dependencies
    graph_keys,       \* insertion order of the keys of DependencyGraph.graph
    cycles,           \* DependencyGraph.cycles
    levels,           \* DependencyGraph.levels
    visited,          \* DependencyGraph.visited
    visited_at_depth, \* local of build_graph_recursive
    stack,            \* call stack of bfs_recursive, innermost frame last
    phase,            \* "new", "building", "done"; "store" for a store filled by its caller
    hash_order,       \* iteration order of the set all_packages in this process
    results,          \* results of the calls of calculate_load_order, oldest first
    queried,          \* history: <<package, depth>> of every provider query
    seen,             \* history: package -> the depths depth+1 at which it was met as a dependency
    previous,         \* the stores returned by the earlier builds of this root, oldest first
    package_names     \* the package names that occur in the repository file

vars == <<max_depth, repository_data, root_package, graph, graph_keys, cycles,
          levels, visited, visited_at_depth, stack, phase, hash_order, results,
          queried, seen, previous, package_names>>

\* ------------------------------------------------------------------ helpers
Range(s) == {s[i] : i \in 1..Len(s)}

Contains(s, x) == \E i \in 1..Len(s) : s[i] = x

\* list.index(x): the first position of x in s
IndexOf(s, x) == CHOOSE i \in 1..Len(s) : s[i] = x /\ \A j \in 1..(i - 1) : s[j] # x

SeqsUpTo(S, n) == UNION {[1..k -> S] : k \in 0..n}

Perms(S) ==
    LET n == Cardinality(S)
    IN  {s \in [1..n -> S] : \A i, j \in 1..n : s[i] = s[j] => i = j}

Min(S) == CHOOSE x \in S : \A y \in S : x <= y

\* ------------------------------------------------------------------ DependencyGraph
\* dict.get(package, []) on the adjacency
get_dependencies(g, package) == IF package \in DOMAIN g THEN g[package] ELSE <<>>

\* Variant of add_dependency: appends without looking for the dependency in the list
add_dependency_NoCheck(g, keys, package, dependency) ==
    LET g1 == IF package \in DOMAIN g THEN g ELSE (package :> <<>>) @@ g
        k1 == IF package \in DOMAIN g THEN keys ELSE Append(keys, package)
    IN  [graph |-> [g1 EXCEPT ![package] = Append(@, dependency)], keys |-> k1]

\* add_dependency on the pair (graph, key order)
add_dependency(g, keys, package, dependency) ==
    LET g1 == IF package \in DOMAIN g THEN g ELSE (package :> <<>>) @@ g
        k1 == IF package \in DOMAIN g THEN keys ELSE Append(keys, package)
    IN  IF Contains(g1[package], dependency)
        THEN [graph |-> g1, keys |-> k1]
        ELSE [graph |-> [g1 EXCEPT ![package] = Append(@, dependency)], keys |-> k1]

get_all_packages(g) == DOMAIN g \cup UNION {Range(g[p]) : p \in DOMAIN g}

RECURSIVE SumLen(_, _)
SumLen(g, S) == IF S = {} THEN 0
                ELSE LET p == CHOOSE x \in S : TRUE IN Len(g[p]) + SumLen(g, S \ {p})

MaxOf(S) == CHOOSE x \in S : \A y \in S : y <= x

get_statistics(g, lv, cy) ==
    [total_packages |-> Cardinality(get_all_packages(g)),
     total_edges |-> SumLen(g, DOMAIN g),
     max_depth |-> IF DOMAIN lv # {} THEN MaxOf({lv[p] : p \in DOMAIN lv}) ELSE 0,
     cycles_found |-> Len(cy),
     packages_with_dependencies |-> Cardinality(DOMAIN g)]

\* ------------------------------------------------------------------ calculate_load_order
\* Iteration order of the set S of packages in this process
SetIteration(order, S) == SelectSeq(order, LAMBDA p : p \in S)

\* Variant of CountDependencies: counts the edges that come into dep (the in-degree of
\* graph theory) where the code counts the dependencies of package
RECURSIVE CountDependencies_Incoming(_, _, _, _)
CountDependencies_Incoming(st, package, deps, i) ==
    IF i > Len(deps) THEN st
    ELSE LET dep == deps[i]
             rg == IF dep \in DOMAIN st.reverse_graph
                   THEN st.reverse_graph
                   ELSE (dep :> <<>>) @@ st.reverse_graph
             deg == IF dep \in DOMAIN st.in_degree
                    THEN st.in_degree[dep]
                    ELSE 0
         IN  CountDependencies_Incoming(
                 [reverse_graph |-> [rg EXCEPT ![dep] = Append(@, package)],
                  in_degree |-> (dep :> (deg + 1)) @@ st.in_degree],
                 package, deps, i + 1)

\* lines 195-199: the inner loop over the dependencies of one package
RECURSIVE CountDependencies(_, _, _, _)
CountDependencies(st, package, deps, i) ==
    IF i > Len(deps) THEN st
    ELSE LET dep == deps[i]
             rg == IF dep \in DOMAIN st.reverse_graph
                   THEN st.reverse_graph
                   ELSE (dep :> <<>>) @@ st.reverse_graph
             deg == IF package \in DOMAIN st.in_degree
                    THEN st.in_degree[package]
                    ELSE 0
         IN  CountDependencies(
                 [reverse_graph |-> [rg EXCEPT ![dep] = Append(@, package)],
                  in_degree |-> (package :> (deg + 1)) @@ st.in_degree],
                 package, deps, i + 1)

\* lines 194-199: the loop over graph.graph.items(), in key insertion order
RECURSIVE CountAll(_, _, _, _)
CountAll(st, g, keys, k) ==
    IF k > Len(keys) THEN st
    ELSE CountAll(CountDependencies(st, keys[k], g[keys[k]], 1), g, keys, k + 1)

\* Variant of ReleaseDependents: tests in_degree[dependent] == 0 before the decrement
RECURSIVE ReleaseDependents_TestFirst(_, _, _)
ReleaseDependents_TestFirst(st, dependents, i) ==
    IF i > Len(dependents) THEN st
    ELSE LET dependent == dependents[i]
             deg == st.in_degree[dependent] - 1
         IN  ReleaseDependents_TestFirst(
                 [st EXCEPT !.in_degree = [@ EXCEPT ![dependent] = deg],
                            !.queue = IF st.in_degree[dependent] = 0
                                      THEN Append(@, dependent) ELSE @],
                 dependents, i + 1)

\* lines 216-219: the loop over the dependents of one loaded package
RECURSIVE ReleaseDependents(_, _, _)
ReleaseDependents(st, dependents, i) ==
    IF i > Len(dependents) THEN st
    ELSE LET dependent == dependents[i]
             deg == st.in_degree[dependent] - 1
         IN  ReleaseDependents(
                 [st EXCEPT !.in_degree = [@ EXCEPT ![dependent] = deg],
                            !.queue = IF deg = 0 THEN Append(@, dependent) ELSE @],
                 dependents, i + 1)

\* lines 212-219: the loop over the packages of the current level
RECURSIVE LoadLevel(_, _, _, _)
LoadLevel(st, reverse_graph, current, i) ==
    IF i > Len(current) THEN st
    ELSE LET package == current[i]
             st1 == [st EXCEPT !.load_order = Append(@, package)]
             dependents == IF package \in DOMAIN reverse_graph
                           THEN reverse_graph[package]
                           ELSE <<>>
         IN  LoadLevel(ReleaseDependents(st1, dependents, 1), reverse_graph, current, i + 1)

\* lines 207-221: while queue
RECURSIVE WhileQueue(_, _)
WhileQueue(st, reverse_graph) ==
    IF st.queue = <<>> THEN st
    ELSE LET current_level_packages == st.queue
             st1 == [st EXCEPT !.levels_dict = Append(@, current_level_packages),
                               !.queue = <<>>]
         IN  WhileQueue(LoadLevel(st1, reverse_graph, current_level_packages, 1),
                        reverse_graph)

\* lines 202: the packages without dependencies, in set iteration order
InitialQueue(iter, in_degree) == SelectSeq(iter, LAMBDA pkg : in_degree[pkg] = 0)

\* line 224: the packages never released, in set iteration order
Unresolved(iter, in_degree) == SelectSeq(iter, LAMBDA pkg : in_degree[pkg] > 0)

\* calculate_load_order(graph); levels_dict[k] is levels[k + 1]
calculate_load_order(g, keys, order) ==
    LET all_packages == get_all_packages(g)
        iter == SetIteration(order, all_packages)
        st0 == [reverse_graph |-> [p \in all_packages |-> <<>>],
                in_degree |-> [p \in all_packages |-> 0]]
        counted == CountAll(st0, g, keys, 1)
        fin == WhileQueue([in_degree |-> counted.in_degree,
                           queue |-> InitialQueue(iter, counted.in_degree),
                           load_order |-> <<>>,
                           levels_dict |-> <<>>],
                          counted.reverse_graph)
        unresolved == Unresolved(iter, fin.in_degree)
    IN  [order |-> fin.load_order,
         levels |-> fin.levels_dict,
         has_cycles |-> Len(unresolved) > 0,
         unresolved |-> unresolved]

\* ------------------------------------------------------------------ TestRepositoryLoader
\* An entry of the repository file: the package is absent, or has a dependency list
Entries == {[present |-> FALSE, dependencies |-> <<>>]}
           \cup {[present |-> TRUE, dependencies |-> s] : s \in SeqsUpTo(package_names, MaxDeps)}

\* The number of dependency names in the entries read so far
RECURSIVE TotalEntries(_, _)
TotalEntries(data, S) ==
    IF S = {} THEN 0
    ELSE LET p == CHOOSE x \in S : TRUE
         IN  Len(data[p].dependencies) + TotalEntries(data, S \ {p})

\* The most dependency names a file holds: MaxEntries for NumPackages packages, one
\* more for each further package
MaxNames == MaxEntries + Cardinality(package_names) - NumPackages

\* The entry of package in the file: the one read before, or, on the first read, any
\* entry that keeps the file within MaxNames dependency names
Lookup(data, package) ==
    IF package \in DOMAIN data
    THEN {data[package]}
    ELSE {e \in Entries :
            Len(e.dependencies) + TotalEntries(data, DOMAIN data) <= MaxNames}

\* TestRepositoryLoader.get_dependencies, on the entry of package_name
loader_get_dependencies(entry) ==
    IF ~entry.present
    THEN [success |-> FALSE, dependencies |-> <<>>]
    ELSE [success |-> TRUE, dependencies |-> entry.dependencies]

\* ------------------------------------------------------------------ DependencyGraphBuilder
EmptyMap == [x \in {} |-> 0]

Frame(package, depth, path) ==
    [package |-> package, depth |-> depth, path |-> path,
     pc |-> "enter", dependencies |-> <<>>, i |-> 1]

Top == stack[Len(stack)]

Pop(stk) == SubSeq(stk, 1, Len(stk) - 1)

\* Variant of AtCutoff: depth > self.max_depth
AtCutoff_Late(depth, limit) == depth > limit

\* line 57: if depth >= self.max_depth
AtCutoff(depth, limit) == depth >= limit

\* Variant of ReturnOnFailure: the failure unwinds every call of bfs_recursive
ReturnOnFailure_Abort(stk) == <<>>

\* lines 64-65: the call returns, its caller goes on with its next dependency
ReturnOnFailure(stk) == Pop(stk)

\* line 75: path[path.index(dep):] + [dep]
CyclePath(path, dep) == Append(SubSeq(path, IndexOf(path, dep), Len(path)), dep)

\* Variant of RecordCycle: appends without looking for the cycle-path in the list
RecordCycle_NoCheck(cy, cycle_path) == Append(cy, cycle_path)

\* lines 76-77
RecordCycle(cy, cycle_path) == IF Contains(cy, cycle_path) THEN cy ELSE Append(cy, cycle_path)

\* Variant of AlreadyVisited: a met package is never entered again
AlreadyVisited_AnyDepth(vad, dep, depth) == dep \in DOMAIN vad

\* line 81
AlreadyVisited(vad, dep, depth) == dep \in DOMAIN vad /\ vad[dep] <= depth + 1

Advance(stk) == [stk EXCEPT ![Len(stk)].i = @ + 1]

Init ==
    /\ max_depth \in 0..MaxDepthChoice
    /\ repository_data = EmptyMap
    /\ root_package = 0
    /\ graph = EmptyMap
    /\ graph_keys = <<>>
    /\ cycles = <<>>
    /\ levels = EmptyMap
    /\ visited = {}
    /\ visited_at_depth = EmptyMap
    /\ stack = <<>>
    /\ phase = "new"
    /\ hash_order = <<>>
    /\ results = <<>>
    /\ queried = {}
    /\ seen = [p \in Packages |-> {}]
    /\ previous = <<>>
    /\ package_names = Packages

\* build_graph_recursive(root), lines 52-53 and 91-93
Build(root) ==
    /\ phase = "new"
    /\ root_package' = root
    /\ graph' = EmptyMap
    /\ graph_keys' = <<>>
    /\ cycles' = <<>>
    /\ visited' = {}
    /\ visited_at_depth' = (root :> 0)
    /\ levels' = (root :> 0)
    /\ stack' = <<Frame(root, 0, <<root>>)>>
    /\ phase' = "building"
    /\ UNCHANGED <<package_names, previous, max_depth, repository_data, hash_order, results, queried, seen>>

\* bfs_recursive, lines 57-58
DepthCutoff ==
    /\ phase = "building" /\ stack # <<>>
    /\ Top.pc = "enter"
    /\ AtCutoff(Top.depth, max_depth)
    /\ stack' = Pop(stack)
    /\ UNCHANGED <<package_names, previous, max_depth, repository_data, root_package, graph, graph_keys, cycles,
                   levels, visited, visited_at_depth, phase, hash_order, results,
                   queried, seen>>

\* bfs_recursive, lines 61-65: the provider fails
QueryFailure ==
    /\ phase = "building" /\ stack # <<>>
    /\ Top.pc = "enter"
    /\ ~AtCutoff(Top.depth, max_depth)
    /\ \E entry \in Lookup(repository_data, Top.package) :
        /\ ~loader_get_dependencies(entry).success
        /\ repository_data' = (Top.package :> entry) @@ repository_data
    /\ queried' = queried \cup {<<Top.package, Top.depth>>}
    /\ stack' = ReturnOnFailure(stack)
    /\ UNCHANGED <<package_names, previous, max_depth, root_package, graph, graph_keys, cycles, levels, visited,
                   visited_at_depth, phase, hash_order, results, seen>>

\* bfs_recursive, lines 61-67: the provider answers
QuerySuccess ==
    /\ phase = "building" /\ stack # <<>>
    /\ Top.pc = "enter"
    /\ ~AtCutoff(Top.depth, max_depth)
    /\ \E entry \in Lookup(repository_data, Top.package) :
        /\ loader_get_dependencies(entry).success
        /\ repository_data' = (Top.package :> entry) @@ repository_data
        /\ stack' = [stack EXCEPT ![Len(stack)].pc = "loop",
                                  ![Len(stack)].dependencies =
                                      loader_get_dependencies(entry).dependencies]
    /\ queried' = queried \cup {<<Top.package, Top.depth>>}
    /\ UNCHANGED <<package_names, previous, max_depth, root_package, graph, graph_keys, cycles, levels, visited,
                   visited_at_depth, phase, hash_order, results, seen>>

InLoop == /\ phase = "building" /\ stack # <<>>
          /\ Top.pc = "loop"
          /\ Top.i <= Len(Top.dependencies)

Dep == Top.dependencies[Top.i]

\* line 71, common to the three ways an iteration of the loop ends
RecordEdge ==
    LET added == add_dependency(graph, graph_keys, Top.package, Dep)
    IN  /\ graph' = added.graph
        /\ graph_keys' = added.keys
        /\ seen' = [seen EXCEPT ![Dep] = @ \cup {Top.depth + 1}]

\* one iteration of the loop, lines 70-78: the dependency is on the path
DepOnPath ==
    /\ InLoop
    /\ RecordEdge
    /\ Contains(Top.path, Dep)
    /\ cycles' = RecordCycle(cycles, CyclePath(Top.path, Dep))
    /\ stack' = Advance(stack)
    /\ UNCHANGED <<package_names, previous, max_depth, repository_data, root_package, levels, visited,
                   visited_at_depth, phase, hash_order, results, queried>>

\* one iteration of the loop, lines 70-82: the dependency was met no deeper before
DepVisited ==
    /\ InLoop
    /\ RecordEdge
    /\ ~Contains(Top.path, Dep)
    /\ AlreadyVisited(visited_at_depth, Dep, Top.depth)
    /\ stack' = Advance(stack)
    /\ UNCHANGED <<package_names, previous, max_depth, repository_data, root_package, cycles, levels, visited,
                   visited_at_depth, phase, hash_order, results, queried>>

\* one iteration of the loop, lines 70-88: the call of bfs_recursive for the dependency
DepRecurse ==
    /\ InLoop
    /\ RecordEdge
    /\ ~Contains(Top.path, Dep)
    /\ ~AlreadyVisited(visited_at_depth, Dep, Top.depth)
    /\ visited_at_depth' = (Dep :> (Top.depth + 1)) @@ visited_at_depth
    /\ levels' = (Dep :> (Top.depth + 1)) @@ levels
    /\ stack' = Append(Advance(stack), Frame(Dep, Top.depth + 1, Append(Top.path, Dep)))
    /\ UNCHANGED <<package_names, previous, max_depth, repository_data, root_package, cycles, visited, phase,
                   hash_order, results, queried>>

\* the loop of lines 70-88 is over: bfs_recursive returns
Return ==
    /\ phase = "building" /\ stack # <<>>
    /\ Top.pc = "loop"
    /\ Top.i > Len(Top.dependencies)
    /\ stack' = Pop(stack)
    /\ UNCHANGED <<package_names, previous, max_depth, repository_data, root_package, graph, graph_keys, cycles,
                   levels, visited, visited_at_depth, phase, hash_order, results,
                   queried, seen>>

\* build_graph_recursive, lines 95-96
Finish ==
    /\ phase = "building" /\ stack = <<>>
    /\ visited' = DOMAIN visited_at_depth
    /\ phase' = "done"
    /\ UNCHANGED <<package_names, previous, max_depth, repository_data, root_package, graph, graph_keys, cycles,
                   levels, visited_at_depth, stack, hash_order, results, queried, seen>>

\* The orders in which the set all_packages may be iterated: any order the first time it
\* is built in this process, the same order when it is built again by the same insertions
IterationOrders ==
    IF results = <<>> THEN Perms(get_all_packages(graph)) ELSE {hash_order}

\* Variant of CalculateLoadOrder: the edges to the loaded packages are removed from the
\* lists of the store as the order is computed
CalculateLoadOrder_Consuming ==
    /\ phase \in {"done", "store"}
    /\ Len(results) < MaxCalls
    /\ \E order \in IterationOrders :
        /\ hash_order' = order
        /\ LET r == calculate_load_order(graph, graph_keys, order)
           IN  /\ results' = Append(results, r)
               /\ graph' = [p \in DOMAIN graph |->
                               SelectSeq(graph[p], LAMBDA d : ~Contains(r.order, d))]
    /\ UNCHANGED <<package_names, previous, max_depth, repository_data, root_package, graph_keys, cycles,
                   levels, visited, visited_at_depth, stack, phase, queried, seen>>

\* a call of calculate_load_order on the store
CalculateLoadOrder ==
    /\ phase \in {"done", "store"}
    /\ Len(results) < MaxCalls
    /\ \E order \in IterationOrders :
        /\ hash_order' = order
        /\ results' = Append(results, calculate_load_order(graph, graph_keys, order))
    /\ UNCHANGED <<package_names, previous, max_depth, repository_data, root_package, graph, graph_keys, cycles,
                   levels, visited, visited_at_depth, stack, phase, queried, seen>>

\* the steps of build_graph_recursive
NextBuild ==
    \/ \E root \in package_names : Build(root)
    \/ DepthCutoff
    \/ QueryFailure
    \/ QuerySuccess
    \/ DepOnPath
    \/ DepVisited
    \/ DepRecurse
    \/ Return
    \/ Finish

\* a build alone
BuildSpec == Init /\ [][NextBuild]_vars

Next ==
    \/ NextBuild
    \/ CalculateLoadOrder

\* a build, then calls of calculate_load_order on the store it returned
Spec == Init /\ [][Next]_vars

\* ------------------------------------------------------------------ a store filled by its caller
\* DependencyGraph(root_package); the root plays no part in add_dependency and
\* calculate_load_order, the first package stands for it
InitStore ==
    /\ max_depth = DefaultMaxDepth
    /\ repository_data = EmptyMap
    /\ root_package = 1
    /\ graph = EmptyMap
    /\ graph_keys = <<>>
    /\ cycles = <<>>
    /\ levels = EmptyMap
    /\ visited = {}
    /\ visited_at_depth = EmptyMap
    /\ stack = <<>>
    /\ phase = "store"
    /\ hash_order = <<>>
    /\ results = <<>>
    /\ queried = {}
    /\ seen = [p \in Packages |-> {}]
    /\ previous = <<>>
    /\ package_names = Packages

\* DependencyGraph.add_dependency called on the store
AddDependency(package, dependency) ==
    /\ phase = "store"
    /\ results = <<>>
    /\ get_statistics(graph, levels, cycles).total_edges < MaxEdges
    /\ LET added == add_dependency(graph, graph_keys, package, dependency)
       IN  /\ graph' = added.graph
           /\ graph_keys' = added.keys
    /\ UNCHANGED <<package_names, previous, max_depth, repository_data, root_package, cycles, levels, visited,
                   visited_at_depth, stack, phase, hash_order, results, queried, seen>>

NextStore ==
    \/ \E package, dependency \in Packages : AddDependency(package, dependency)
    \/ CalculateLoadOrder

StoreSpec == InitStore /\ [][NextStore]_vars

\* ------------------------------------------------------------------ two builds of one root
\* the lists that hold the elements of s, each as often as s does, in any order
ListOrders(s) ==
    {[i \in 1..Len(s) |-> s[f[i]]] : f \in Perms(1..Len(s))}

\* The repository files that list, for every package of D, the same dependencies as
\* data in some order
RECURSIVE ReorderingsOver(_, _)
ReorderingsOver(data, D) ==
    IF D = {} THEN {EmptyMap}
    ELSE LET p == CHOOSE x \in D : TRUE
         IN  {(p :> [data[p] EXCEPT !.dependencies = l]) @@ d :
                 l \in ListOrders(data[p].dependencies),
                 d \in ReorderingsOver(data, D \ {p})}

Reorderings(data) == ReorderingsOver(data, DOMAIN data)

\* the store as build_graph_recursive returned it
ReturnedStore ==
    [graph |-> graph, graph_keys |-> graph_keys, levels |-> levels, cycles |-> cycles,
     visited |-> visited]

\* build_graph_recursive(root_package) once more, with the same max_depth, after the
\* lists of the repository were reordered; lines 52-53 and 91-93
Rebuild ==
    /\ phase = "done"
    /\ previous = <<>>
    /\ previous' = Append(previous, ReturnedStore)
    /\ repository_data' \in Reorderings(repository_data)
    /\ graph' = EmptyMap
    /\ graph_keys' = <<>>
    /\ cycles' = <<>>
    /\ visited' = {}
    /\ visited_at_depth' = (root_package :> 0)
    /\ levels' = (root_package :> 0)
    /\ stack' = <<Frame(root_package, 0, <<root_package>>)>>
    /\ phase' = "building"
    /\ queried' = {}
    /\ seen' = [p \in package_names |-> {}]
    /\ UNCHANGED <<package_names, max_depth, root_package, hash_order, results>>

\* a builder over a repository of PairPackages
InitPair ==
    /\ max_depth \in 0..MaxDepthChoice
    /\ repository_data = EmptyMap
    /\ root_package = 0
    /\ graph = EmptyMap
    /\ graph_keys = <<>>
    /\ cycles = <<>>
    /\ levels = EmptyMap
    /\ visited = {}
    /\ visited_at_depth = EmptyMap
    /\ stack = <<>>
    /\ phase = "new"
    /\ hash_order = <<>>
    /\ results = <<>>
    /\ queried = {}
    /\ seen = [p \in PairPackages |-> {}]
    /\ previous = <<>>
    /\ package_names = PairPackages

NextPair ==
    \/ NextBuild
    \/ Rebuild

PairSpec == InitPair /\ [][NextPair]_vars

\* ------------------------------------------------------------------ properties
Successors(g, p) == Range(get_dependencies(g, p))

\* the packages reachable from the set S along the edges of g, S included
RECURSIVE ReachableFrom(_, _)
ReachableFrom(g, S) ==
    LET next == S \cup UNION {Successors(g, p) : p \in S}
    IN  IF next = S THEN S ELSE ReachableFrom(g, next)

\* the edges of g contain a directed cycle
HasCycle(g) == \E p \in get_all_packages(g) : p \in ReachableFrom(g, Successors(g, p))

\* C1: in every result of calculate_load_order, every package of the linear order
\* comes strictly after each package it directly depends on, each of which is in
\* the order, and the first level holds only packages without dependencies.
C1_OrderRespectsDependencies ==
    \A k \in 1..Len(results) :
        LET r == results[k]
        IN  /\ \A i \in 1..Len(r.order) :
                \A d \in Successors(graph, r.order[i]) :
                    /\ \E j \in 1..(i - 1) : r.order[j] = d
                    /\ \A j \in i..Len(r.order) : r.order[j] # d
            /\ Len(r.levels) > 0 =>
                \A p \in Range(r.levels[1]) : get_dependencies(graph, p) = <<>>

\* a result whose order places a package with two dependencies after both of them
C1_Witness ==
    \E k \in 1..Len(results) :
        \E i \in 1..Len(results[k].order) :
            /\ Len(get_dependencies(graph, results[k].order[i])) >= 2
            /\ Len(results[k].levels) >= 2

\* C3: unresolved is non-empty exactly when the edges contain a directed cycle, and
\* for acyclic edges every package of get_all_packages is in the linear order.
C3_UnresolvedIffCycle ==
    \A k \in 1..Len(results) :
        LET r == results[k]
        IN  /\ (r.unresolved # <<>>) <=> HasCycle(graph)
            /\ r.has_cycles <=> HasCycle(graph)
            /\ ~HasCycle(graph) =>
                /\ Range(r.order) = get_all_packages(graph)
                /\ r.unresolved = <<>>

\* a result for a store with a cycle and a package outside it that is loaded
C3_Witness ==
    \E k \in 1..Len(results) :
        /\ HasCycle(graph)
        /\ results[k].unresolved # <<>>
        /\ results[k].order # <<>>

\* a result for an acyclic store of three packages on two levels or more
C3_WitnessAcyclic ==
    \E k \in 1..Len(results) :
        /\ ~HasCycle(graph)
        /\ Len(results[k].order) >= 3
        /\ Len(results[k].levels) >= 2
\* C2: after build(root), levels[root] is 0 and the level of every other discovered
\* package is the minimum of the depths depth+1 at which it was met as a dependency
\* (it holds in every state of the build, too).
C2_LevelIsMinimumDepth ==
    phase \in {"building", "done"} =>
        /\ root_package \in DOMAIN levels /\ levels[root_package] = 0
        /\ \A p \in Packages \ {root_package} :
            /\ seen[p] = {} => p \notin DOMAIN levels
            /\ seen[p] # {} => p \in DOMAIN levels /\ levels[p] = Min(seen[p])
        /\ visited_at_depth = levels

\* a finished build in which a package was entered at depth 2, then met at depth 1 and
\* entered again
C2_Witness ==
    /\ phase = "done"
    /\ \E p \in Packages \ {root_package} :
        /\ p \in DOMAIN levels /\ levels[p] = 1
        /\ seen[p] = {1, 2}
        /\ <<p, 2>> \in queried /\ <<p, 1>> \in queried

\* C4 (as claimed): every identifier of a recorded cycle-path is unresolved and not in
\* the linear order, and whenever the edges contain a cycle, cycles and unresolved
\* are both non-empty.
C4_CycleSurfacedInBoth ==
    phase = "done" =>
        \A k \in 1..Len(results) :
            LET r == results[k]
            IN  /\ \A c \in 1..Len(cycles) :
                    \A id \in Range(cycles[c]) :
                        Contains(r.unresolved, id) /\ ~Contains(r.order, id)
                /\ HasCycle(graph) => cycles # <<>> /\ r.unresolved # <<>>

\* the half of C4 about the recorded cycle-paths alone
RecordedCyclesAreUnresolved ==
    phase = "done" =>
        \A k \in 1..Len(results) :
            \A c \in 1..Len(cycles) :
                \A id \in Range(cycles[c]) :
                    Contains(results[k].unresolved, id) /\ ~Contains(results[k].order, id)

\* C5 (as claimed): every level bucket and the unresolved list are in ascending order
IsAscending(s) == \A i, j \in 1..Len(s) : i < j => s[i] < s[j]

C5_OutputIsSorted ==
    \A k \in 1..Len(results) :
        /\ \A b \in 1..Len(results[k].levels) : IsAscending(results[k].levels[b])
        /\ IsAscending(results[k].unresolved)

C7_MaxDepthIsHardCutoff ==
    phase \in {"building", "done"} =>
        /\ \A q \in queried : q[2] < max_depth
        /\ \A p \in DOMAIN levels : levels[p] <= max_depth
        /\ \A p \in DOMAIN graph : p \in DOMAIN levels /\ levels[p] <= max_depth - 1
        /\ \A p \in Packages \ {root_package} :
            seen[p] = {max_depth} =>
                /\ p \in DOMAIN levels /\ levels[p] = max_depth
                /\ \E q \in DOMAIN graph : Contains(graph[q], p)
                /\ p \notin DOMAIN graph
                /\ \A d \in 0..max_depth : <<p, d>> \notin queried

\* a finished build with max_depth >= 2 and a package met only at depth max_depth
C7_Witness ==
    /\ phase = "done"
    /\ max_depth >= 2
    /\ \E p \in Packages \ {root_package} : seen[p] = {max_depth}

\* C8: a package for which the provider fails never gets an outgoing edge and keeps
\* its level; when the build has returned, every dependency of every package the
\* provider answered for is recorded as an edge and has a level.
C8_ProviderFailureIsLocal ==
    /\ \A p \in DOMAIN repository_data :
        ~repository_data[p].present => p \notin DOMAIN graph /\ p \in DOMAIN levels
    /\ phase = "done" =>
        \A q \in DOMAIN repository_data :
            repository_data[q].present =>
                \A d \in Range(repository_data[q].dependencies) :
                    /\ Contains(get_dependencies(graph, q), d)
                    /\ d \in DOMAIN levels

\* a finished build in which the provider failed for the first dependency of the root
\* and the second dependency was queried after that
C8_Witness ==
    /\ phase = "done"
    /\ \E p, r \in Packages \ {root_package} :
        /\ p # r
        /\ root_package \in DOMAIN repository_data
        /\ repository_data[root_package].dependencies = <<p, r>>
        /\ p \in DOMAIN repository_data /\ ~repository_data[p].present
        /\ r \in DOMAIN repository_data /\ repository_data[r].present
        /\ graph[root_package] = <<p, r>>

\* C9 (as claimed): no traversal runs, and no store is returned, for a max_depth < 1
C9_InvalidMaxDepthRejected == phase = "done" => max_depth >= 1

\* C10: no adjacency list holds a target twice; adding an edge that exists leaves
\* adjacency, its order and total_edges as they are; a new edge goes to the end of
\* the list of its source.
NoDuplicateTargets ==
    \A p \in DOMAIN graph :
        \A i, j \in 1..Len(graph[p]) : graph[p][i] = graph[p][j] => i = j

TotalEdges == get_statistics(graph, levels, cycles).total_edges

C10_AddEdgeIdempotent ==
    /\ []NoDuplicateTargets
    /\ [][InLoop =>
            LET p == Top.package
                d == Dep
                old == get_dependencies(graph, p)
            IN  IF Contains(old, d)
                THEN /\ graph' = graph
                     /\ graph_keys' = graph_keys
                     /\ TotalEdges' = TotalEdges
                ELSE /\ DOMAIN graph' = DOMAIN graph \cup {p}
                     /\ graph'[p] = Append(old, d)
                     /\ \A q \in DOMAIN graph \ {p} : graph'[q] = graph[q]
                     /\ TotalEdges' = TotalEdges + 1]_vars

\* the provider listed the same dependency twice and both were processed: one edge
C10_Witness ==
    /\ phase = "building" /\ stack # <<>>
    /\ Top.pc = "loop"
    /\ Top.i = 3
    /\ Top.dependencies[1] = Top.dependencies[2]
    /\ graph[Top.package] = <<Top.dependencies[1]>>

\* C11: in every state of a build no cycle-path is recorded twice, and every recorded
\* cycle-path begins and ends with the same identifier.
C11_CyclePathsAreDistinct ==
    /\ \A i, j \in 1..Len(cycles) : cycles[i] = cycles[j] => i = j
    /\ \A i \in 1..Len(cycles) :
        /\ Len(cycles[i]) >= 2
        /\ cycles[i][1] = cycles[i][Len(cycles[i])]

\* a finished build in which a package that depends on itself was entered at depth 2
\* and, met on a shorter route, again at depth 1: its cycle-path is recorded once
C11_Witness ==
    /\ phase = "done"
    /\ \E p \in Packages \ {root_package} :
        /\ <<p, 2>> \in queried /\ <<p, 1>> \in queried
        /\ p \in DOMAIN repository_data
        /\ Contains(repository_data[p].dependencies, p)
        /\ cycles = << <<p, p>> >>

\* the set of the edges of an adjacency
EdgeSet(g) == UNION {{<<p, g[p][i]>> : i \in 1..Len(g[p])} : p \in DOMAIN g}

\* C12 (as claimed): two builds that differ only in the order of the provider's lists
\* end with the same set of edges, the same levels, and cycles empty in both or in
\* neither.
C12_OrderChangesOnlyAdjacencyOrder ==
    (phase = "done" /\ previous # <<>>) =>
        /\ EdgeSet(graph) = EdgeSet(previous[1].graph)
        /\ levels = previous[1].levels
        /\ (cycles = <<>>) <=> (previous[1].cycles = <<>>)

\* the part of C12 about the edges and the levels alone
SameEdgesAndLevels ==
    (phase = "done" /\ previous # <<>>) =>
        /\ EdgeSet(graph) = EdgeSet(previous[1].graph)
        /\ levels = previous[1].levels
        /\ visited = previous[1].visited

====
